---- MODULE Spec2Model ----
(***************************************************************************)
(* Connect 4 (src/Main_code.py): the session object Connect4 (board,       *)
(* turn, game_over, the pygame event loop) and the rule-based computer     *)
(* opponent Bot (easy / moderate / hard).                                  *)
(*                                                                         *)
(* The board is the 6 x 7 numpy array __container, row 0 on top; a cell    *)
(* holds 0 (empty), 1 (player 1) or 2 (player 2 / bot).  numpy arrays are  *)
(* objects: the bot's simulations are modelled on a heap of arrays so      *)
(* that copying and aliasing are what the code does.                       *)
(***************************************************************************)
EXTENDS Integers, Sequences, FiniteSets, TLC

VARIABLES
    container,       \* Connect4.__container of the session (the live board)
    turn,            \* Connect4.turn
    game_over,       \* Connect4.game_over
    num_players,     \* Connect4.num_players
    bot_difficulty,  \* Connect4.bot_difficulty ("none" models None)
    pc,              \* where the process is: gameloop / event_handler / done / exited
    pending,         \* events of the batch of pygame.event.get() not yet iterated
    labels,          \* banners blitted on the top strip since it was last blacked out
    placed,          \* the session's place_coin successes while handling the last event
    handled,         \* what the last handled event was: none / click / rejected / motion / quit
    bot_call,        \* the bot_move call of the last handled event: << >> or
                     \* <<[board, ret, after]>>: the array passed, the column
                     \* returned, the array as the call left it
    script,          \* scripted inputs still to come (clicks and random draws)
    free,            \* unscripted clicks the environment may still send (direct
                     \* calls a caller may still make, where methods are called directly)
    result           \* what the last direct call or the last step of bot_move
                     \* produced; << >> in the session

vars == <<container, turn, game_over, num_players, bot_difficulty, pc, pending,
          labels, placed, handled, bot_call, script, free, result>>

----------------------------------------------------------------------------
(* Program constants *)

num_columns == 7
num_rows == 6
SQUARESIZE == 100

(* Bounds of the model *)

MaxBatch == 2      \* events in one batch of pygame.event.get()
MaxFree == 1       \* unscripted clicks after the scripted prefix
MaxCalls == 1      \* unscripted place_coin calls of a direct caller

Rows == 0..(num_rows - 1)
Cols == 0..(num_columns - 1)

width == num_columns * SQUARESIZE

----------------------------------------------------------------------------
(* Connect4: the board operations, as functions of the array they act on *)

\* np.zeros((6, 7))
EmptyBoard == [r \in Rows |-> [c \in Cols |-> 0]]

\* numpy's index into an axis of length n: 0..n-1 and, counted from the end,
\* -n..-1 are in bounds; any other index raises IndexError.
in_bounds(i, n) == i >= -n /\ i < n

\* The position an in-bounds index names
np_index(i, n) == IF i < 0 THEN i + n ELSE i

\* The column index raises: self.__container[.., column] is out of bounds.
raises(column) == ~in_bounds(column, num_columns)

\* check_move_allowed: self.__container[0, column] == 0
check_move_allowed(b, column) == b[0][np_index(column, num_columns)] = 0

\* (mutant of LandingRow: the rows are scanned from the top, reversed() dropped)
LandingRowFromTop(b, column) ==
    LET j == np_index(column, num_columns)
    IN  IF \E r \in Rows : b[r][j] = 0
        THEN CHOOSE r \in Rows : b[r][j] = 0 /\ \A q \in Rows : q < r => b[q][j] # 0
        ELSE num_rows - 1

\* The row the loop of place_coin stops at: scanning rows 5,4,..,0 it breaks at
\* the first empty cell; without a break the loop variable ends at row 0.
LandingRow(b, column) ==
    LET j == np_index(column, num_columns)
    IN  IF \E r \in Rows : b[r][j] = 0
        THEN CHOOSE r \in Rows : b[r][j] = 0 /\ \A q \in Rows : q > r => b[q][j] # 0
        ELSE 0

\* place_coin: [ok, board]; ok is the returned value (None is FALSE).  The
\* column is used as numpy uses it; a call whose index raises is not
\* place_coin's to answer (see call_place_coin).
place_coin(b, column, player) ==
    LET res == check_move_allowed(b, column)
        row == LandingRow(b, column)
    IN  IF res
        THEN [ok |-> TRUE,
              board |-> [b EXCEPT ![row][np_index(column, num_columns)] = player]]
        ELSE [ok |-> FALSE, board |-> b]

\* check_win: player on a 4-in-a-row of player, else 3 on a full board, else 0 (None).
Horizontal(b, player) ==
    \E c \in 0..(7 - 3 - 1) : \E r \in 0..(6 - 1) :
        /\ b[r][c] = player /\ b[r][c + 1] = player
        /\ b[r][c + 2] = player /\ b[r][c + 3] = player

Vertical(b, player) ==
    \E c \in 0..(7 - 1) : \E r \in 0..(6 - 3 - 1) :
        /\ b[r][c] = player /\ b[r + 1][c] = player
        /\ b[r + 2][c] = player /\ b[r + 3][c] = player

DiagDown(b, player) ==
    \E c \in 0..(7 - 3 - 1) : \E r \in 0..(6 - 3 - 1) :
        /\ b[r][c] = player /\ b[r + 1][c + 1] = player
        /\ b[r + 2][c + 2] = player /\ b[r + 3][c + 3] = player

DiagUp(b, player) ==
    \E c \in 0..(7 - 3 - 1) : \E r \in 3..(6 - 1) :
        /\ b[r][c] = player /\ b[r - 1][c + 1] = player
        /\ b[r - 2][c + 2] = player /\ b[r - 3][c + 3] = player

\* np.all(self.__container)
AllNonZero(b) == \A r \in Rows : \A c \in Cols : b[r][c] # 0

check_win_draw_first(b, player) ==
    IF AllNonZero(b) THEN 3
    ELSE IF \/ Horizontal(b, player) \/ Vertical(b, player)
            \/ DiagDown(b, player) \/ DiagUp(b, player)
         THEN player ELSE 0

check_win(b, player) ==
    IF \/ Horizontal(b, player) \/ Vertical(b, player)
       \/ DiagDown(b, player) \/ DiagUp(b, player)
    THEN player
    ELSE IF AllNonZero(b) THEN 3 ELSE 0

----------------------------------------------------------------------------
(* Bot(Connect4).  A bot state is [heap, self]: heap is the sequence of    *)
(* arrays allocated so far, heap[LiveRef] the array passed as curr_board   *)
(* (the session's __container), and self the index of the array the bot's  *)
(* own _Connect4__container currently names.  A bot operation returns      *)
(* [st, ret]: the state it leaves and its return value.                    *)

LiveRef == 1

\* Bot.__init__ -> Connect4.__init__: the bot's own np.zeros((6, 7))
BotInit(live) == [heap |-> <<live, EmptyBoard>>, self |-> 2]

\* (mutant of set_current_board: the .copy() dropped, self names curr_board itself)
set_current_board_alias(st, ref) == [st EXCEPT !.self = ref]

\* set_current_board: self._Connect4__container = curr_board.copy()
set_current_board(st, ref) ==
    [heap |-> Append(st.heap, st.heap[ref]), self |-> Len(st.heap) + 1]

\* The inherited place_coin, acting in place on the array self names.
bot_place_coin(st, column, player) ==
    LET r == place_coin(st.heap[st.self], column, player)
    IN  [st |-> [st EXCEPT !.heap[st.self] = r.board], ret |-> r.ok]

\* The inherited check_win and check_move_allowed, reading the array self names.
bot_check_win(st, player) == check_win(st.heap[st.self], player)
bot_check_move_allowed(st, column) == check_move_allowed(st.heap[st.self], column)

\* (mutant of random_move: the drawn column is returned whether or not
\* place_coin took it)
random_move_unchecked(st, curr) ==
    LET s0 == set_current_board(st, curr)
    IN  { [st |-> bot_place_coin(s0, col, 2).st, ret |-> col] : col \in Cols }

\* random_move: every (state, column) the loop can return with; the draw
\* np.random.randint(0,7) is any column, and a draw whose place_coin fails
\* changes nothing and is repeated.
random_move(st, curr) ==
    LET s0 == set_current_board(st, curr)
    IN  { [st |-> bot_place_coin(s0, col, 2).st, ret |-> col] :
              col \in { c \in Cols : bot_place_coin(s0, c, 2).ret } }

\* (mutant of place_4th_loop: range(1,3) not reversed, player 1 tried first)
RECURSIVE place_4th_loop_block_first(_, _, _)
place_4th_loop_block_first(st, curr, i) ==
    IF i >= 2 * num_columns
    THEN [st |-> st, ret |-> -1]
    ELSE LET player == 1 + (i \div num_columns)
             col == i % num_columns
             p == bot_place_coin(st, col, player)
         IN  IF p.ret
             THEN IF bot_check_win(p.st, player) = player
                  THEN [st |-> p.st, ret |-> col]
                  ELSE place_4th_loop_block_first(set_current_board(p.st, curr), curr, i + 1)
             ELSE place_4th_loop_block_first(p.st, curr, i + 1)

\* place_4th_coin: the loops over player = 2, 1 and col = 0..6, step i
\* standing for (player, col) = (2 - i \div 7, i % 7); ret -1 is None.
RECURSIVE place_4th_loop(_, _, _)
place_4th_loop(st, curr, i) ==
    IF i >= 2 * num_columns
    THEN [st |-> st, ret |-> -1]
    ELSE LET player == 2 - (i \div num_columns)
             col == i % num_columns
             p == bot_place_coin(st, col, player)
         IN  IF p.ret
             THEN IF bot_check_win(p.st, player) = player
                  THEN [st |-> p.st, ret |-> col]
                  ELSE place_4th_loop(set_current_board(p.st, curr), curr, i + 1)
             ELSE place_4th_loop(p.st, curr, i + 1)

place_4th_coin(st, curr) == place_4th_loop(set_current_board(st, curr), curr, 0)

\* check_mistake: updated_board names the array self named after the bot's
\* coin went in (no copy is taken); the loop over col = 0..6.
RECURSIVE check_mistake_loop(_, _, _)
check_mistake_loop(st, updated_board, col) ==
    IF col >= num_columns
    THEN [st |-> st, ret |-> FALSE]
    ELSE LET p == bot_place_coin(st, col, 1)
         IN  IF p.ret
             THEN IF bot_check_win(p.st, 1) = 1
                  THEN [st |-> p.st, ret |-> TRUE]
                  ELSE check_mistake_loop(set_current_board(p.st, updated_board),
                                          updated_board, col + 1)
             ELSE check_mistake_loop(p.st, updated_board, col + 1)

\* (mutant of check_mistake: the replies of player 1 are never simulated)
check_mistake_never(st, column, curr) ==
    LET s0 == set_current_board(st, curr)
    IN  [st |-> bot_place_coin(s0, column, 2).st, ret |-> FALSE]

check_mistake(st, column, curr) ==
    LET s0 == set_current_board(st, curr)
        p == bot_place_coin(s0, column, 2)
    IN  IF p.ret
        THEN check_mistake_loop(p.st, p.st.self, 0)
        ELSE [st |-> p.st, ret |-> FALSE]

\* The counting loop of the hard tier: [st, ret] with ret = available_moves.
RECURSIVE count_available(_, _, _, _)
count_available(st, curr, col, available_moves) ==
    IF col >= num_columns
    THEN [st |-> st, ret |-> available_moves]
    ELSE IF bot_check_move_allowed(st, col)
         THEN LET m == check_mistake(st, col, curr)
              IN  count_available(m.st, curr, col + 1,
                                  IF m.ret THEN available_moves ELSE available_moves + 1)
         ELSE count_available(st, curr, col + 1, available_moves)

\* The re-roll loop of the hard tier: a draw of random_move is returned when
\* check_mistake says it is no mistake; every check_mistake starts from a
\* copy of curr_board, so a rejected draw leaves nothing the next one reads.
hard_reroll(st, curr) ==
    { [st |-> check_mistake(r.st, r.ret, curr).st, ret |-> r.ret] :
          r \in { q \in random_move(st, curr) : ~check_mistake(q.st, q.ret, curr).ret } }

\* bot_move: the set of [st, ret] the call can end with.
bot_move(difficulty, st, curr) ==
    IF difficulty = "easy"
    THEN random_move(st, curr)
    ELSE LET res == place_4th_coin(st, curr)
         IN  IF res.ret # -1
             THEN {res}
             ELSE IF difficulty = "moderate"
                  THEN random_move(res.st, curr)
                  ELSE IF difficulty = "hard"
                       THEN LET n == count_available(res.st, curr, 0, 0)
                            IN  IF n.ret > 0
                                THEN hard_reroll(n.st, curr)
                                ELSE random_move(n.st, curr)
                       ELSE {}

----------------------------------------------------------------------------
(* The environment: mouse positions, scripted games, and the session *)

\* event.pos[0] of a click: the left and right edge pixel of every column
PosXs == { c * SQUARESIZE + o : c \in Cols, o \in {0, SQUARESIZE - 1} }

\* col = int(math.floor(posx / SQUARESIZE))
ColumnOf(posx) == posx \div SQUARESIZE

\* Scripted games: the columns of the successive placements (in single-player
\* mode clicks and bot draws alternate).  Each is a game the named mode can play.
NoScript == << >>
\* the end-to-end game of the specification: player 1 wins on the 7th placement
ScriptWin == <<0, 1, 0, 1, 0, 1, 0>>
\* column 0 filled, three coins of each player in columns 1 and 2, one in column 3
ScriptColumnFull == <<0, 0, 0, 0, 0, 0, 1, 2, 1, 2, 1, 2, 3>>
\* 40 placements without a line, leaving the top cells of columns 1 and 4
ScriptFull == <<2, 6, 4, 3, 4, 6, 0, 6, 2, 5, 5, 1, 6, 5, 2, 4, 5, 1, 6, 3,
                3, 5, 1, 5, 3, 0, 3, 0, 6, 3, 0, 2, 2, 1, 0, 2, 0, 4, 4, 1>>
\* the human stacks three coins in column 0; the bot has no line to complete
ScriptBlock == <<0, 3, 0, 4, 0>>
\* the human stacks column 0 while the bot lines up row 5
ScriptOwnWin == <<0, 3, 3, 5, 0, 4, 0>>
\* a game after which the hard tier counts every safe column as a mistake
ScriptHard == <<4, 2, 2, 0, 3, 6, 0, 6, 3, 4, 3, 3, 1, 1, 2>>

Scripts(n, difficulty) ==
    IF n = 2 \/ difficulty = "easy"
    THEN {NoScript, ScriptWin, ScriptColumnFull, ScriptFull}
    ELSE {NoScript, ScriptBlock, ScriptOwnWin, ScriptHard}

Difficulties == {"easy", "moderate", "hard"}

P1WINS == "Player 1 wins!!"
P2WINS == "Player 2 wins!!"
DRAW == "It's a Draw!!"

\* Connect4.__init__ (and __main__: a single-player game has a difficulty)
Init ==
    /\ container = EmptyBoard
    /\ turn = 0
    /\ game_over = FALSE
    /\ num_players \in {1, 2}
    /\ bot_difficulty \in (IF num_players = 1 THEN Difficulties ELSE {"none"})
    /\ pc = "gameloop"
    /\ pending = 0
    /\ labels = << >>
    /\ placed = << >>
    /\ handled = "none"
    /\ bot_call = << >>
    /\ script \in Scripts(num_players, bot_difficulty)
    /\ free = MaxFree
    /\ result = << >>

\* (mutant of mover_of: every click places a coin of player 1)
mover_of_one(t) == 1

\* if self.turn == 0: player 1 places, else player 2
mover_of(t) == IF t = 0 THEN 1 ELSE 2

\* (mutant of Banners: the win test made for player 1 whoever moved)
Banners_win_of_one(b, mover) ==
    (IF check_win(b, 1) = 1
     THEN <<IF mover = 1 THEN P1WINS ELSE P2WINS>> ELSE << >>)
    \o (IF check_win(b, 1) = 3 THEN <<DRAW>> ELSE << >>)

\* The banners one placement blits: the win of the mover, then the draw test
\* check_win(1) == 3 that all three branches of event_handler use.
Banners(b, mover) ==
    (IF check_win(b, mover) = mover
     THEN <<IF mover = 1 THEN P1WINS ELSE P2WINS>> ELSE << >>)
    \o (IF check_win(b, 1) = 3 THEN <<DRAW>> ELSE << >>)

\* (mutant of next_turn: the turn is never advanced)
next_turn_stuck(n, t) == t

\* if self.num_players==2: self.turn += 1; self.turn = self.turn % 2
next_turn(n, t) == IF n = 2 THEN (t + 1) % 2 ELSE t

\* (mutant of bot_invoked: the test of game_over dropped)
bot_invoked_always(n, over) == n # 2

\* else: if not self.game_over: the bot moves
bot_invoked(n, over) == n # 2 /\ ~over

\* (mutant of click_rejected: the break dropped, the turn advances)
click_rejected_flips(b, t, over) ==
    [board |-> b, turn |-> (t + 1) % 2, over |-> over, labels |-> << >>,
     placed |-> << >>, handled |-> "rejected", bot_call |-> << >>, broke |-> FALSE]

\* A click whose place_coin fails: else: break.  Nothing of the session
\* changes, the rest of the batch is dropped, the strip stays blacked out.
click_rejected(b, t, over) ==
    [board |-> b, turn |-> t, over |-> over, labels |-> << >>, placed |-> << >>,
     handled |-> "rejected", bot_call |-> << >>, broke |-> TRUE]

\* gameloop: while not self.game_over: self.event_handler(), which starts by
\* fetching the batch pygame.event.get()
GetEvents ==
    /\ pc = "gameloop"
    /\ ~game_over
    /\ pending' \in 0..MaxBatch
    /\ pc' = "event_handler"
    /\ UNCHANGED <<container, turn, game_over, num_players, bot_difficulty,
                   labels, placed, handled, bot_call, script, free, result>>

\* gameloop: the while test fails once game_over is set
Finish ==
    /\ pc = "gameloop"
    /\ game_over
    /\ pc' = "done"
    /\ UNCHANGED <<container, turn, game_over, num_players, bot_difficulty,
                   pending, labels, placed, handled, bot_call, script, free, result>>

\* event_handler: the for loop is exhausted; back to gameloop
Return ==
    /\ pc = "event_handler"
    /\ pending = 0
    /\ pc' = "gameloop"
    /\ UNCHANGED <<container, turn, game_over, num_players, bot_difficulty,
                   pending, labels, placed, handled, bot_call, script, free, result>>

\* event_handler: a QUIT event: pygame.quit(); exit()
HandleQuit ==
    /\ pc = "event_handler"
    /\ pending > 0
    /\ pc' = "exited"
    /\ pending' = 0
    /\ handled' = "quit"
    /\ UNCHANGED <<container, turn, game_over, num_players, bot_difficulty,
                   labels, placed, bot_call, script, free, result>>

\* event_handler: a MOUSEMOTION event: draw_coin blacks out the top strip
HandleMotion ==
    /\ pc = "event_handler"
    /\ pending > 0
    /\ labels' = << >>
    /\ placed' = << >>
    /\ handled' = "motion"
    /\ bot_call' = << >>
    /\ pending' = pending - 1
    /\ UNCHANGED <<container, turn, game_over, num_players, bot_difficulty,
                   pc, script, free, result>>

\* The bot's turn inside a click (lines 227-239), on the board b the human
\* left: the set of [board, labels, placed, over, call] it can end with.
\* The board bot_move leaves is the array it was passed, heap[LiveRef].
BotTurn(b, difficulty) ==
    { LET live == r.st.heap[LiveRef]
          q == place_coin(live, r.ret, 2)
          call == <<[board |-> b, ret |-> r.ret, after |-> live]>>
      IN  IF q.ok
          THEN [board |-> q.board, labels |-> Banners(q.board, 2),
                placed |-> <<[player |-> 2, column |-> r.ret]>>,
                over |-> Banners(q.board, 2) # << >>, call |-> call]
          ELSE [board |-> live, labels |-> << >>, placed |-> << >>,
                over |-> FALSE, call |-> call]
      : r \in bot_move(difficulty, BotInit(b), LiveRef) }

\* One MOUSEBUTTONDOWN event on column col, handled to the end of the loop
\* body or to the break (broke: the rest of the batch is dropped): the set of
\* outcomes.
ClickOutcomes(b, t, over, n, difficulty, col) ==
    LET mover == mover_of(t)
        p == place_coin(b, col, mover)
        ban == Banners(p.board, mover)
        over1 == over \/ ban # << >>
        me == <<[player |-> mover, column |-> col]>>
    IN  IF ~p.ok
        THEN {click_rejected(b, t, over)}
        ELSE IF bot_invoked(n, over1)
        THEN { [board |-> x.board, turn |-> next_turn(n, t), over |-> x.over,
                labels |-> x.labels, placed |-> me \o x.placed,
                handled |-> "click", bot_call |-> x.call, broke |-> FALSE]
               : x \in BotTurn(p.board, difficulty) }
        ELSE { [board |-> p.board, turn |-> next_turn(n, t), over |-> over1,
                labels |-> ban, placed |-> me,
                handled |-> "click", bot_call |-> << >>, broke |-> FALSE] }

\* event_handler: a MOUSEBUTTONDOWN event at posx.  A scripted click and a
\* scripted draw take the script's next column; an unscripted click uses up
\* one of the free clicks.
HandleClick(posx) ==
    LET col == ColumnOf(posx)
        rest == IF script = << >> THEN << >> ELSE Tail(script)
    IN  /\ pc = "event_handler"
        /\ pending > 0
        /\ IF script = << >> THEN free > 0 /\ free' = free - 1
                             ELSE col = Head(script) /\ free' = free
        /\ \E o \in ClickOutcomes(container, turn, game_over, num_players,
                                  bot_difficulty, col) :
            /\ (o.bot_call # << >> /\ rest # << >>) => o.bot_call[1].ret = Head(rest)
            /\ container' = o.board
            /\ turn' = o.turn
            /\ game_over' = o.over
            /\ labels' = o.labels
            /\ placed' = o.placed
            /\ handled' = o.handled
            /\ bot_call' = o.bot_call
            /\ pending' = (IF o.broke THEN 0 ELSE pending - 1)
            /\ script' = (IF o.bot_call # << >> /\ rest # << >> THEN Tail(rest) ELSE rest)
        /\ UNCHANGED <<num_players, bot_difficulty, pc, result>>

Next ==
    \/ GetEvents
    \/ Finish
    \/ Return
    \/ HandleQuit
    \/ HandleMotion
    \/ \E posx \in PosXs : HandleClick(posx)

Spec == Init /\ [][Next]_vars

----------------------------------------------------------------------------
(* The class called directly: a caller constructs a Connect4 and calls its  *)
(* public methods, with whatever arguments it likes.                        *)

\* Connect4.__init__(num_players, bot_difficulty = None): the arguments are
\* stored as given ("none" is None)
Connect4_init(n, difficulty) ==
    [container |-> EmptyBoard, turn |-> 0, game_over |-> FALSE,
     num_players |-> n, bot_difficulty |-> difficulty]

\* The number of coins on a board
Coins(b) == Cardinality({ rc \in Rows \X Cols : b[rc[1]][rc[2]] # 0 })

\* The columns a caller tries: the valid ones and the ones around both ends of
\* the ranges numpy tells apart
CallColumns == Cols \cup {-num_columns - 1, -num_columns, -1, num_columns}

\* player 1 completes the diagonal from (2, 0) down to (5, 3)
ScriptDiag == <<3, 2, 2, 1, 0, 1, 1, 0, 6, 0, 0>>

\* The placements a caller replays, players alternating: the scripted games,
\* a diagonal, and ScriptFull continued into either of its last two cells
CallScripts ==
    {NoScript, ScriptWin, ScriptColumnFull, ScriptBlock, ScriptOwnWin, ScriptHard,
     ScriptDiag, ScriptFull \o <<1>>, ScriptFull \o <<4>>}

\* The bot_difficulty arguments a caller passes: the default None, and a tier
CallDifficulties == {"none", "hard"}

InitCalls ==
    /\ \E n \in {1, 2} : \E difficulty \in CallDifficulties :
        LET self == Connect4_init(n, difficulty)
        IN  /\ container = self.container
            /\ turn = self.turn
            /\ game_over = self.game_over
            /\ num_players = self.num_players
            /\ bot_difficulty = self.bot_difficulty
    /\ pc = "caller"
    /\ pending = 0
    /\ labels = << >>
    /\ placed = << >>
    /\ handled = "none"
    /\ bot_call = << >>
    /\ script \in CallScripts
    /\ free = MaxCalls
    /\ result = << >>

\* place_coin(column, player) called from outside: an index numpy refuses
\* raises IndexError in check_move_allowed, before anything is written
call_place_coin(b, column, player) ==
    IF raises(column)
    THEN [op |-> "place_coin", column |-> column, player |-> player,
          raised |-> TRUE, ret |-> FALSE, before |-> b, after |-> b]
    ELSE LET r == place_coin(b, column, player)
         IN  [op |-> "place_coin", column |-> column, player |-> player,
              raised |-> FALSE, ret |-> r.ok, before |-> b, after |-> r.board]

\* check_move_allowed(column) called from outside
call_check_move_allowed(b, column) ==
    IF raises(column)
    THEN [op |-> "check_move_allowed", column |-> column,
          raised |-> TRUE, ret |-> FALSE, before |-> b, after |-> b]
    ELSE [op |-> "check_move_allowed", column |-> column,
          raised |-> FALSE, ret |-> check_move_allowed(b, column),
          before |-> b, after |-> b]

CallPlaceCoin(column, player) ==
    /\ pc = "caller"
    /\ \/ /\ script # << >>
          /\ column = Head(script)
          /\ player = (IF Coins(container) % 2 = 0 THEN 1 ELSE 2)
          /\ script' = Tail(script)
          /\ free' = free
       \/ /\ free > 0
          /\ script' = << >>
          /\ free' = free - 1
    /\ LET r == call_place_coin(container, column, player)
       IN  /\ container' = r.after
           /\ result' = <<r>>
    /\ UNCHANGED <<turn, game_over, num_players, bot_difficulty, pc, pending,
                   labels, placed, handled, bot_call>>

CallCheckMoveAllowed(column) ==
    /\ pc = "caller"
    /\ result' = <<call_check_move_allowed(container, column)>>
    /\ UNCHANGED <<container, turn, game_over, num_players, bot_difficulty, pc,
                   pending, labels, placed, handled, bot_call, script, free>>

CallCheckWin(player) ==
    /\ pc = "caller"
    /\ result' = <<[op |-> "check_win", player |-> player,
                    ret |-> check_win(container, player),
                    before |-> container, after |-> container]>>
    /\ UNCHANGED <<container, turn, game_over, num_players, bot_difficulty, pc,
                   pending, labels, placed, handled, bot_call, script, free>>

NextCalls ==
    \/ \E column \in CallColumns : \E player \in {1, 2} : CallPlaceCoin(column, player)
    \/ \E column \in CallColumns : CallCheckMoveAllowed(column)
    \/ \E player \in {1, 2} : CallCheckWin(player)

SpecCalls == InitCalls /\ [][NextCalls]_vars

----------------------------------------------------------------------------
(* bot_move step by step: every np.random.randint draw is a step.  Each bot *)
(* operation starts by copying curr_board, so what a draw does depends on   *)
(* the board passed and the drawn column only; pc is the loop the call is   *)
(* in, and result the last draw (the returned column once pc = "returned"). *)

\* The board after the first k placements of a scripted game, players
\* alternating: the h-th coin dropped into a column lies h cells above the floor
Replay(s, k) ==
    [r \in Rows |-> [c \in Cols |->
        LET drops == { i \in 1..k : s[i] = c }
            h == num_rows - r
        IN  IF Cardinality(drops) < h THEN 0
            ELSE LET i == CHOOSE i \in drops : Cardinality({ j \in drops : j <= i }) = h
                 IN  IF i % 2 = 1 THEN 1 ELSE 2]]

\* The single-player games whose boards reach the bot: the scripted games of
\* the tier, every first click, and on easy ScriptFull down to the last cell
BotScripts(difficulty) ==
    Scripts(1, difficulty) \cup { <<c>> : c \in Cols }
        \cup (IF difficulty = "easy"
              THEN {ScriptFull \o <<1>>, ScriptFull \o <<4>>} ELSE {})

\* The boards event_handler passes to bot_move: the human has just placed a
\* coin and the game is not over
BotBoards(difficulty) ==
    { b \in UNION { { Replay(s, k) : k \in { j \in 1..Len(s) : j % 2 = 1 } } :
                    s \in BotScripts(difficulty) } :
          Banners(b, 1) = << >> }

InitBot ==
    /\ num_players = 1
    /\ bot_difficulty \in Difficulties
    /\ container \in BotBoards(bot_difficulty)
    /\ turn = 0
    /\ game_over = FALSE
    /\ pc = "bot_move"
    /\ pending = 0
    /\ labels = << >>
    /\ placed = << >>
    /\ handled = "none"
    /\ bot_call = << >>
    /\ script = << >>
    /\ free = 0
    /\ result = << >>

\* (mutant of hard_branch: the re-roll loop entered whatever was counted)
hard_branch_always_reroll(available_moves) == "reroll"

\* if available_moves > 0: the re-roll loop, else: the plain random_move
hard_branch(available_moves) ==
    IF available_moves > 0 THEN "reroll" ELSE "random_move"

\* (mutant of draw_accepted: the drawn column is returned untested)
draw_accepted_any(b, col, loop) == TRUE

\* Whether a drawn column ends the loop: random_move returns it when
\* place_coin took it, and the re-roll loop when check_mistake also says it
\* is no mistake
draw_accepted(b, col, loop) ==
    LET s0 == set_current_board(BotInit(b), LiveRef)
    IN  /\ bot_place_coin(s0, col, 2).ret
        /\ loop = "reroll" => ~check_mistake(BotInit(b), col, LiveRef).ret

\* bot_move up to its first random draw: where the call stands then, and
\* what it has returned if place_4th_coin found a column
bot_enter(b, difficulty) ==
    LET res == place_4th_coin(BotInit(b), LiveRef)
    IN  IF difficulty = "easy"
        THEN [pc |-> "random_move", result |-> << >>]
        ELSE IF res.ret # -1
             THEN [pc |-> "returned",
                   result |-> <<[ret |-> res.ret, via |-> "place_4th_coin"]>>]
             ELSE IF difficulty = "moderate"
                  THEN [pc |-> "random_move", result |-> << >>]
                  ELSE [pc |-> hard_branch(count_available(res.st, LiveRef, 0, 0).ret),
                        result |-> << >>]

\* bot_enter and draw_accepted tabulated over the boards a call can be made
\* with (the board does not change during the call)
AllBotBoards == UNION { BotBoards(difficulty) : difficulty \in Difficulties }
Entered ==
    [b \in AllBotBoards |-> [difficulty \in Difficulties |-> bot_enter(b, difficulty)]]
Accepted ==
    [b \in AllBotBoards |-> [loop \in {"random_move", "reroll"} |->
        { col \in Cols : draw_accepted(b, col, loop) }]]

BotEnter ==
    /\ pc = "bot_move"
    /\ pc' = Entered[container][bot_difficulty].pc
    /\ result' = Entered[container][bot_difficulty].result
    /\ UNCHANGED <<container, turn, game_over, num_players, bot_difficulty,
                   pending, labels, placed, handled, bot_call, script, free>>

\* One draw col = np.random.randint(0,7) of the loop the call is in
RandomDraw(col) ==
    /\ pc \in {"random_move", "reroll"}
    /\ result' = <<[ret |-> col, via |-> pc]>>
    /\ pc' = (IF col \in Accepted[container][pc] THEN "returned" ELSE pc)
    /\ UNCHANGED <<container, turn, game_over, num_players, bot_difficulty,
                   pending, labels, placed, handled, bot_call, script, free>>

NextBot ==
    \/ BotEnter
    \/ \E col \in Cols : RandomDraw(col)

\* Fair draws: the call gets to run, and no column is left out of the draws
\* for ever
SpecBot ==
    /\ InitBot /\ [][NextBot]_vars
    /\ WF_vars(BotEnter)
    /\ \A col \in Cols : WF_vars(RandomDraw(col))

----------------------------------------------------------------------------
(* Properties *)

\* The cells in which two boards differ
Changed(b, c) == { rc \in Rows \X Cols : b[rc[1]][rc[2]] # c[rc[1]][rc[2]] }

\* The number of occupied cells of a column
Height(b, column) == Cardinality({ r \in Rows : b[r][column] # 0 })

\* The occupied cells of a column are stacked from the bottom
Stacked(b, column) ==
    \A r \in Rows : b[r][column] # 0 => \A q \in Rows : q > r => b[q][column] # 0

\* A step that handles a MOUSEBUTTONDOWN event
ClickStep == pending' < pending /\ handled' \in {"click", "rejected"}

\* C1: once game_over is true, no later click places a coin or changes the
\* board, clicks still queued in the batch being iterated included.
C1_NoPlacementAfterGameOver == [][game_over => container' = container]_vars

\* C2: a draw is reported only when the board is full and no win exists: when
\* the mover's coin fills the board and completes a 4-in-a-row, the win is
\* reported and the draw is not.
C2_DrawOnlyWithoutWin ==
    (\E i \in 1..Len(labels) : labels[i] = DRAW) =>
        /\ AllNonZero(container)
        /\ placed # << >>
        /\ LET mover == placed[Len(placed)].player
           IN  check_win(container, mover) # mover

\* C3: in a column with k < 6 cells stacked from the bottom, place_coin writes
\* the player into row 5 - k, changes no other cell and overwrites nothing.
C3_PlaceLandsOnStack ==
    \A column \in Cols : \A player \in {1, 2} :
        LET k == Height(container, column)
            r == place_coin(container, column, player)
        IN  (k < num_rows /\ Stacked(container, column)) =>
                /\ r.ok
                /\ container[num_rows - 1 - k][column] = 0
                /\ r.board[num_rows - 1 - k][column] = player
                /\ Changed(container, r.board) = {<<num_rows - 1 - k, column>>}

\* C3 witness: the session has just placed a coin on top of at least two others
C3_Witness ==
    /\ placed # << >>
    /\ LET column == placed[Len(placed)].column
           k == Height(container, column)
       IN  /\ k >= 3 /\ k < num_rows
           /\ container[num_rows - k][column] = placed[Len(placed)].player

\* C4: a click on a column whose row 0 is occupied is rejected: the board,
\* the turn and game_over are unchanged and the bot makes no move.
C4_FullColumnRejected ==
    [][\A posx \in PosXs :
         (container[0][ColumnOf(posx)] # 0 /\ HandleClick(posx)) =>
            /\ handled' = "rejected"
            /\ container' = container
            /\ turn' = turn
            /\ game_over' = game_over
            /\ placed' = << >>
            /\ bot_call' = << >>]_vars

\* C4 witness: a single-player click on a full column has been rejected
C4_Witness ==
    /\ handled = "rejected"
    /\ num_players = 1
    /\ \E c \in Cols : container[0][c] # 0

\* Placing player's coin in column c of b completes a 4-in-a-row of player
WinsAt(b, c, player) ==
    /\ check_move_allowed(b, c)
    /\ check_win(place_coin(b, c, player).board, player) = player

Playable(b) == { c \in Cols : check_move_allowed(b, c) }
OwnWins(b) == { c \in Cols : WinsAt(b, c, 2) }
Blocks(b) == { c \in Cols : WinsAt(b, c, 1) }
Lowest(S) == CHOOSE c \in S : \A d \in S : c <= d

\* After the bot's coin in column c of b, some single coin of player 1 wins
Unsafe(b, c) ==
    \E d \in Cols : WinsAt(place_coin(b, c, 2).board, d, 1)

\* C5: bot_move leaves the live board as it was passed; in a bot turn the
\* only cell of the live board that changes is the one the session's
\* place_coin(col, 2) writes for the returned column.
C5_BotLeavesLiveBoard ==
    bot_call # << >> =>
        LET call == bot_call[1]
        IN  /\ call.after = call.board
            /\ Cardinality(Changed(call.board, container)) <= 1
            /\ \A rc \in Changed(call.board, container) :
                   /\ rc[2] = call.ret
                   /\ call.board[rc[1]][rc[2]] = 0
                   /\ container[rc[1]][rc[2]] = 2

\* C5 witness: the hard bot has gone through its counting and re-roll loops
\* and the session has placed its coin
C5_Witness ==
    /\ bot_call # << >>
    /\ bot_difficulty = "hard"
    /\ OwnWins(bot_call[1].board) = {} /\ Blocks(bot_call[1].board) = {}
    /\ Len(placed) = 2
    /\ script = << >> /\ free < MaxFree

\* C6: on a board with a playable column, the column bot_move returns is in
\* 0..6 and playable on the live board, so the session's place_coin(col, 2)
\* succeeds.
C6_BotColumnPlayable ==
    (bot_call # << >> /\ Playable(bot_call[1].board) # {}) =>
        LET call == bot_call[1]
        IN  /\ call.ret \in Cols
            /\ check_move_allowed(call.after, call.ret)
            /\ Len(placed) = 2
            /\ placed[2] = [player |-> 2, column |-> call.ret]

\* C6 witness: the bot has moved on a board with a full column
C6_Witness ==
    /\ bot_call # << >>
    /\ Playable(bot_call[1].board) # Cols
    /\ Len(placed) = 2
    /\ script = << >> /\ free < MaxFree

\* C7: on moderate and hard, bot_move returns the lowest column that completes
\* a line of the bot if there is one (even when another column would block
\* player 1), else the lowest column that completes a line of player 1 if
\* there is one: a function of the board.
C7_WinThenBlockLowest ==
    (bot_call # << >> /\ bot_difficulty \in {"moderate", "hard"}) =>
        LET call == bot_call[1]
            own == OwnWins(call.board)
            block == Blocks(call.board)
        IN  /\ own # {} => call.ret = Lowest(own)
            /\ (own = {} /\ block # {}) => call.ret = Lowest(block)

\* C7 witness: the bot completed its own line although a lower column blocks
C7_Witness ==
    /\ bot_call # << >>
    /\ bot_difficulty = "moderate"
    /\ Cardinality(OwnWins(bot_call[1].board)) > 1
    /\ Blocks(bot_call[1].board) # {}
    /\ Lowest(Blocks(bot_call[1].board)) < Lowest(OwnWins(bot_call[1].board))
    /\ bot_call[1].ret = Lowest(OwnWins(bot_call[1].board))

\* C8: on hard, with no own winning column, no blocking column and at least
\* one safe playable column, bot_move never returns an unsafe column.
C8_HardAvoidsUnsafe ==
    (bot_call # << >> /\ bot_difficulty = "hard") =>
        LET call == bot_call[1]
            safe == { c \in Playable(call.board) : ~Unsafe(call.board, c) }
        IN  (OwnWins(call.board) = {} /\ Blocks(call.board) = {} /\ safe # {})
                => call.ret \in safe

\* C9: in two-player mode the turn flips after every successful placement and
\* only then: the coin placed is the one of the player to move, and a
\* rejected click leaves the same player to move.
C9_TurnAlternates ==
    [][num_players = 2 =>
         IF container' # container
         THEN /\ turn' = 1 - turn
              /\ \E rc \in Rows \X Cols :
                    /\ Changed(container, container') = {rc}
                    /\ container[rc[1]][rc[2]] = 0
                    /\ container'[rc[1]][rc[2]] = turn + 1
         ELSE turn' = turn]_vars

\* C9 witness: a click of player 2 was rejected and player 2 is still to move
C9_Witness ==
    /\ num_players = 2
    /\ handled = "rejected"
    /\ turn = 1

\* C10: in single-player mode the human places player-1 coins and the bot
\* player-2 coins; the bot places exactly one coin right after each
\* successful human placement that leaves the game not over, and none after
\* a rejected click or after a human placement that leaves the game over.
C10_BotRepliesOnce ==
    [][(num_players = 1 /\ ClickStep) =>
         /\ turn = 0 /\ turn' = 0
         /\ handled' = "rejected" =>
                placed' = << >> /\ bot_call' = << >> /\ container' = container
         /\ handled' = "click" =>
                /\ Len(placed') \in {1, 2}
                /\ placed'[1].player = 1
                /\ \A i \in 2..Len(placed') : placed'[i].player = 2
                /\ LET human == IF bot_call' # << >> THEN bot_call'[1].board
                                                     ELSE container'
                       ended == game_over \/ check_win(human, 1) \in {1, 3}
                   IN  /\ Changed(container, human)
                            = {<<num_rows - 1 - Height(container, placed'[1].column),
                                 placed'[1].column>>}
                       /\ Len(placed') = 2 <=> ~ended
                       /\ bot_call' # << >> <=> ~ended
                       /\ Cardinality(Changed(human, container')) = Len(placed') - 1]_vars

\* C10 witness: the human's coin ended the game and the bot did not reply
C10_Witness ==
    /\ num_players = 1
    /\ handled = "click"
    /\ labels = <<P1WINS>>
    /\ Len(placed) = 1 /\ bot_call = << >>

\* The step directions of a line: right, down, down-right, up-right
Directions == {<<0, 1>>, <<1, 0>>, <<1, 1>>, <<-1, 1>>}

\* Four cells of one player in a row, somewhere on the board
HasLine(b, p) ==
    \E r \in Rows : \E c \in Cols : \E d \in Directions :
        \A k \in 0..3 :
            /\ (r + k * d[1]) \in Rows
            /\ (c + k * d[2]) \in Cols
            /\ b[r + k * d[1]][c + k * d[2]] = p

\* C11: check_win(p) returns p exactly when the board holds four cells of p in
\* a row (horizontal, vertical or either diagonal); otherwise 3 exactly when no
\* cell is empty; otherwise nothing.  A full board with a line of p is a win.
C11_CheckWinResult ==
    (result # << >> /\ result[1].op = "check_win") =>
        LET b == result[1].before
            p == result[1].player
            full == Coins(b) = num_rows * num_columns
        IN  /\ result[1].ret = p <=> HasLine(b, p)
            /\ result[1].ret = 3 <=> (~HasLine(b, p) /\ full)
            /\ result[1].ret = 0 <=> (~HasLine(b, p) /\ ~full)

\* check_win answered p on a full board
C11_Witness ==
    /\ result # << >>
    /\ result[1].op = "check_win"
    /\ Coins(container) = num_rows * num_columns
    /\ result[1].ret = result[1].player

\* C12: under fair random draws every bot_move call returns, whatever the
\* difficulty and whatever board the session passes, the re-roll loop of the
\* hard tier and its all-unsafe fallback included.
C12_BotMoveReturns == <>(pc = "returned")

\* the hard tier returned from the fallback: nothing was counted available
C12_Witness ==
    /\ bot_difficulty = "hard"
    /\ pc = "returned"
    /\ result[1].via = "random_move"
    /\ count_available(place_4th_coin(BotInit(container), LiveRef).st, LiveRef, 0, 0).ret = 0

\* C13: on easy, the columns bot_move can return are exactly the playable
\* columns of the board it is given: no full column is ever returned, and
\* every playable column can be.
C13_EasyReturnsPlayable ==
    bot_difficulty = "easy" =>
        /\ { r.ret : r \in bot_move("easy", BotInit(container), LiveRef) }
               = { c \in Cols : container[0][c] = 0 }
        /\ pc = "random_move" =>
               \A col \in Cols :
                   container[0][col] = 0 <=> ENABLED (RandomDraw(col) /\ pc' = "returned")
        /\ pc = "returned" => container[0][result[1].ret] = 0

\* the easy bot returned a column of a board that has a full column
C13_Witness ==
    /\ bot_difficulty = "easy"
    /\ pc = "returned"
    /\ \E c \in Cols : container[0][c] # 0

\* C14: a column index outside 0..6 (negative, or 7 and above) passed to
\* check_move_allowed or place_coin is rejected with an error and never
\* mapped onto a valid column: no cell changes.
C14_OutOfRangeRejected ==
    (/\ result # << >>
     /\ result[1].op \in {"place_coin", "check_move_allowed"}
     /\ result[1].column \notin Cols)
        => result[1].raised /\ result[1].after = result[1].before

\* C15: constructing a single-player session without a difficulty fails in
\* the constructor, so no session with num_players = 1 and bot_difficulty
\* None ever exists.
C15_SinglePlayerHasDifficulty ==
    pc = "caller" => ~(num_players = 1 /\ bot_difficulty = "none")

\* C16: after each fully handled click game_over is true exactly when the
\* board holds a four-in-a-row of player 1 or of player 2 or has no empty
\* cell; the two-player clicks 0,1,0,1,0,1,0 leave the game open through six
\* placements and report player 1's win on the seventh.
C16_GameOverIffLineOrFull ==
    /\ game_over <=> \/ HasLine(container, 1)
                     \/ HasLine(container, 2)
                     \/ Coins(container) = num_rows * num_columns
    /\ \A k \in 0..6 : container = Replay(ScriptWin, k) => ~game_over
    /\ (/\ num_players = 2
        /\ handled = "click"
        /\ container = Replay(ScriptWin, 7)) => game_over /\ labels = <<P1WINS>>

\* the seventh click of the end-to-end game has been handled
C16_Witness ==
    /\ num_players = 2
    /\ handled = "click"
    /\ container = Replay(ScriptWin, 7)
    /\ placed = <<[player |-> 1, column |-> 0]>>
    /\ game_over

\* C17: for every board and every playable column c, check_mistake(c, board)
\* is true exactly when, on the board with the bot's coin in c, one coin of
\* player 1 in some playable column alone completes a line; every simulated
\* reply is judged on the board plus those two coins only.
C17_CheckMistakeIsUnsafe ==
    bot_call # << >> =>
        LET b == bot_call[1].board
        IN  \A c \in Cols :
                b[0][c] = 0 =>
                    (check_mistake(BotInit(b), c, LiveRef).ret <=> Unsafe(b, c))

\* C18: on hard, a column bot_move returns from its filtered re-roll loop
\* (available_moves > 0) is playable on the live board and truly safe: after
\* the bot's coin there, no single coin of player 1 completes a line.
C18_RerollReturnsSafe ==
    (/\ bot_difficulty = "hard"
     /\ pc = "returned"
     /\ result[1].via = "reroll")
        => /\ container[0][result[1].ret] = 0
           /\ ~Unsafe(container, result[1].ret)
           /\ result[1].ret \in { r.ret : r \in bot_move("hard", BotInit(container), LiveRef) }

\* the re-roll loop returned on a board that has an unsafe playable column
C18_Witness ==
    /\ bot_difficulty = "hard"
    /\ pc = "returned"
    /\ result[1].via = "reroll"
    /\ \E c \in Cols : container[0][c] = 0 /\ Unsafe(container, c)

\* The number of coins of one player on a board
CoinsOf(b, p) == Cardinality({ rc \in Rows \X Cols : b[rc[1]][rc[2]] = p })

\* C19: while the game is not over, after each fully handled click the coins
\* are balanced: with two players #1 - #2 is 0 when turn = 0 and 1 when
\* turn = 1; with one player the counts are equal and turn stays 0.  So the
\* bot is only ever called on a board with an odd number of coins, which has
\* a playable column.
C19_CoinsBalanced ==
    /\ ~game_over =>
           /\ num_players = 2 => CoinsOf(container, 1) - CoinsOf(container, 2) = turn
           /\ num_players = 1 =>
                  CoinsOf(container, 1) = CoinsOf(container, 2) /\ turn = 0
    /\ bot_call # << >> =>
           /\ Coins(bot_call[1].board) % 2 = 1
           /\ \E c \in Cols : bot_call[1].board[0][c] = 0

\* both cases: a two-player game waiting for player 2, or a single-player
\* game in which the bot has just replied, several coins on the board
C19_Witness ==
    /\ ~game_over
    /\ handled = "click"
    /\ Coins(container) >= 6
    /\ \/ num_players = 2 /\ turn = 1
       \/ num_players = 1 /\ bot_call # << >>

\* C20: in every reachable state the coins obey gravity (no empty cell below
\* a non-empty one in any column), and a cell that is non-empty keeps its
\* value for the rest of the game.
C20_GravityAndPermanence ==
    /\ [](\A c \in Cols : Stacked(container, c))
    /\ [][\A r \in Rows : \A c \in Cols :
              container[r][c] # 0 => container'[r][c] = container[r][c]]_vars

\* a column filled to the top, coins of both players in it, other columns begun
C20_Witness ==
    /\ Height(container, 0) = num_rows
    /\ \E r \in Rows : container[r][0] = 1
    /\ \E r \in Rows : container[r][0] = 2
    /\ \E c \in Cols : c # 0 /\ Height(container, c) >= 3

====
